---- MODULE Spec2Model ----
(***************************************************************************)
(* GitPulse MCP server (src/src/server.py).                                *)
(*                                                                         *)
(* The server is stateless: every tool invocation reads the process        *)
(* environment, talks to the upstream GitHub client and returns a value or *)
(* raises one exception.  The state of the model is the process            *)
(* environment plus the invocation being served: its arguments, what the   *)
(* upstream answers to the requests the handler makes, the upstream        *)
(* operations the handler has invoked (in order), the number of records it *)
(* has pulled from the paginated iterator, the handler's local variables   *)
(* and what it returned or raised.  A tool's action runs the handler up to *)
(* its `for` loop (or to its end when it has none); each pass of the loop  *)
(* is one step of the tool's _loop action.                                 *)
(*                                                                         *)
(* Strings the code inspects character by character (the repository        *)
(* identifier, the comment body) are sequences of one-character strings;   *)
(* messages are TLA+ strings.  An optional value is <<>> (None) or <<v>>.  *)
(***************************************************************************)
EXTENDS Integers, Sequences, FiniteSets, TLC

VARIABLES environ, pc, tool, args, upstream, calls, consumed, locals, outcome

vars == <<environ, pc, tool, args, upstream, calls, consumed, locals, outcome>>

-----------------------------------------------------------------------------
(* Bounds of the model *)

MaxIdLen == 3
MaxFlagged == 3
MaxPerPage == 3
MaxFailAt == 2
MaxBodyLen == 3
MaxIssueNumber == 2
MaxExcess == 2

(* per_page = min(per_page, 100)  # GitHub API limit *)
PageCap == 100

(* release.body[:500] + "..." if ... len(release.body) > 500 *)
BodyLimit == 500

-----------------------------------------------------------------------------
(* Values *)

None == <<>>
Some(v) == <<v>>

Min(a, b) == IF a <= b THEN a ELSE b
Max(a, b) == IF a >= b THEN a ELSE b

RECURSIVE SeqsUpTo(_, _)
SeqsUpTo(S, n) ==
    IF n = 0 THEN {<<>>}
    ELSE LET shorter == SeqsUpTo(S, n - 1)
         IN  shorter \cup {Append(s, c) : s \in {t \in shorter : Len(t) = n - 1}, c \in S}

(* A returned value and a raised exception, as one shape. *)
Return(v) ==
    [raised |-> FALSE, type |-> "", message |-> "", value |-> v, context |-> None]
Raise(t, m) ==
    [raised |-> TRUE, type |-> t, message |-> m, value |-> None, context |-> None]

(* One upstream operation invoked by a handler. *)
Call(op, arg) == [op |-> op, arg |-> arg]

-----------------------------------------------------------------------------
(* Process environment *)

Environs ==
    { {}, {<<"GITHUB_TOKEN", "">>}, {<<"GITHUB_TOKEN", "ghp_token">>} }

environ_get(env, name) ==
    IF \E p \in env : p[1] = name
    THEN Some((CHOOSE p \in env : p[1] = name)[2])
    ELSE None

(* Python truthiness of an Optional[str] *)
Truthy(opt) == opt # None /\ opt[1] # ""

-----------------------------------------------------------------------------
(* parse_repository *)

IdChars == {"o", "/"}
Identifiers == SeqsUpTo(IdChars, MaxIdLen)

RECURSIVE split(_, _)
split(s, sep) ==
    IF s = <<>> THEN << <<>> >>
    ELSE IF Head(s) = sep THEN << <<>> >> \o split(Tail(s), sep)
    ELSE LET rest == split(Tail(s), sep)
         IN  << <<Head(s)>> \o Head(rest) >> \o Tail(rest)

parse_repository_any_parts(repo_str) ==
    LET parts == split(repo_str, "/")
    IN  IF Len(parts) < 2
        THEN Raise("ValueError", "Repository must be in format 'owner/repo'")
        ELSE Return(<<parts[1], parts[2]>>)

parse_repository(repo_str) ==
    LET parts == split(repo_str, "/")
    IN  IF Len(parts) # 2
        THEN Raise("ValueError", "Repository must be in format 'owner/repo'")
        ELSE Return(<<parts[1], parts[2]>>)

(* f"{owner}/{repo_name}" *)
full_name(pair) == pair[1] \o <<"/">> \o pair[2]



-----------------------------------------------------------------------------
(* The upstream collaborator (PyGithub) as the handlers see it.            *)
(*                                                                         *)
(* A listed collection is n records, numbered 1..n in upstream order; the  *)
(* records whose index is in `flagged` carry the attribute the handler     *)
(* tests (issue.pull_request for issues, a failing get_workflow lookup for *)
(* workflow runs, a missing `reactions` attribute for comments).  LongLen  *)
(* records are enough to pass the page cap.                                *)

LongLen == PageCap + MaxFlagged + 2

Collections ==
    { [n |-> n, flagged |-> F] :
        n \in (0..MaxFlagged) \cup {LongLen},
        F \in SUBSET (1..MaxFlagged) }

FlaggedCollections == {c \in Collections : \A i \in c.flagged : i <= c.n}
PlainCollections == {c \in FlaggedCollections : c.flagged = {}}
EmptyCollection == [n |-> 0, flagged |-> {}]

(* GitHub names a repository "owner/name" with both parts non-empty: no    *)
(* other identifier resolves, so get_repo can only succeed for those.      *)
Resolvable(repo_str) ==
    /\ Len(SelectSeq(repo_str, LAMBDA c : c = "/")) = 1
    /\ Head(repo_str) # "/"
    /\ repo_str[Len(repo_str)] # "/"

(* str(e) of the exceptions the collaborator raises *)
NotFoundMessage == "404 Not Found"
FaultMessage == "503 Service Unavailable"
ForbiddenMessage == "403 Forbidden"

NoRepository ==
    [repo_found |-> FALSE, items |-> EmptyCollection, fail_at |-> 0]

(* Responses to a list fetcher: whether get_repo finds the repository, the *)
(* collection listed, and fail_at = k > 0 when the k-th pull from the      *)
(* paginated iterator raises (0: the iterator never raises).               *)
ListUpstreams(repo_str, colls) ==
    {NoRepository}
    \cup (IF Resolvable(repo_str)
          THEN {[repo_found |-> TRUE, items |-> c, fail_at |-> f] :
                    c \in colls, f \in 0..MaxFailAt}
          ELSE {})

PerPages == (-1..MaxPerPage) \cup {PageCap, PageCap + 1}

IssueNumbers == 1..MaxIssueNumber

-----------------------------------------------------------------------------
(* What a handler has done so far: `pc` is "loop" when it stands at the    *)
(* head of its `for` loop and "done" when it has returned or raised; `res` *)
(* is what it returned or raised; `calls` are the upstream operations it   *)
(* invoked; `locals` are per_page (after the clamp), results and count.    *)

NoLocals == [per_page |-> 0, results |-> <<>>, count |-> 0]

Enter(cs, per_page) ==
    [pc |-> "loop", res |-> Return(None), calls |-> cs,
     locals |-> [per_page |-> per_page, results |-> <<>>, count |-> 0]]

Leave(res, cs) ==
    [pc |-> "done", res |-> res, calls |-> cs, locals |-> NoLocals]

(* The shared failure wrapper:                                             *)
(*     except Exception as e: raise Exception(f"<prefix>{str(e)}")         *)
(* The raised exception keeps the caught one as its __context__.           *)
reraise_no_prefix(prefix, run) ==
    IF run.res.raised
    THEN [run EXCEPT !.res = [Raise("Exception", run.res.message)
                                EXCEPT !.context = Some([type |-> run.res.type,
                                                          message |-> run.res.message])]]
    ELSE run

reraise(prefix, run) ==
    IF run.res.raised
    THEN [run EXCEPT !.res = [Raise("Exception", prefix \o run.res.message)
                                EXCEPT !.context = Some([type |-> run.res.type,
                                                          message |-> run.res.message])]]
    ELSE run

(* per_page = min(per_page, 100)  # GitHub API limit *)
clamp_none(per_page) == per_page

clamp(per_page) == Min(per_page, PageCap)

(* One pass of                                                             *)
(*     for x in xs:                                                        *)
(*         if count >= per_page: break                                     *)
(*         [if <skip>: continue]                                           *)
(*         results.append(<record>); count += 1                            *)
(*     return results                                                      *)
(* with `pulled` records already taken from the iterator: the pass pulls   *)
(* the next record first and tests the count after.  `lookups` are the     *)
(* upstream operations normalising the record invokes.                     *)
for_each(up, pulled, l, skip, record, lookups) ==
    LET k == pulled + 1
    IN  IF up.fail_at = k
        THEN [pc |-> "done", consumed |-> pulled, locals |-> l,
              res |-> Raise("GithubException", FaultMessage), calls |-> <<>>]
        ELSE IF k > up.items.n
        THEN [pc |-> "done", consumed |-> pulled, locals |-> l,
              res |-> Return(l.results), calls |-> <<>>]
        ELSE IF l.count >= l.per_page
        THEN [pc |-> "done", consumed |-> k, locals |-> l,
              res |-> Return(l.results), calls |-> <<>>]
        ELSE IF skip
        THEN [pc |-> "loop", consumed |-> k, locals |-> l,
              res |-> Return(None), calls |-> <<>>]
        ELSE [pc |-> "loop", consumed |-> k,
              locals |-> [l EXCEPT !.results = Append(@, record), !.count = @ + 1],
              res |-> Return(None), calls |-> lookups]

(* Lines shared by every handler: parse_repository, then github.get_repo.  *)
(* `ok` when both succeed, with the upstream calls so far and the parsed   *)
(* (owner, name) pair; otherwise `run` is the handler's run, ended by the  *)
(* exception.                                                              *)
Proceed(cs, pair) == [ok |-> TRUE, calls |-> cs, pair |-> pair, run |-> Leave(Return(None), cs)]
Stop(res, cs) == [ok |-> FALSE, calls |-> cs, pair |-> <<>>, run |-> Leave(res, cs)]

get_repo(repository, up) ==
    LET parsed == parse_repository(repository)
    IN  IF parsed.raised THEN Stop(parsed, <<>>)
        ELSE
        LET c1 == <<Call("get_repo", full_name(parsed.value))>>
        IN  IF ~up.repo_found
            THEN Stop(Raise("UnknownObjectException", NotFoundMessage), c1)
            ELSE Proceed(c1, parsed.value)

-----------------------------------------------------------------------------
(* fetchNewCommits *)

SinceValues == {None, Some("2024-01-01T00:00:00Z"), Some("yesterday")}

(* datetime.fromisoformat(since.replace('Z', '+00:00')) accepts the value *)
fromisoformat_ok(since) == since = Some("2024-01-01T00:00:00Z")

fetchNewCommits_try(repository, per_page, since, up) ==
    LET repo == get_repo(repository, up)
    IN  IF ~repo.ok THEN repo.run
        ELSE IF Truthy(since) /\ ~fromisoformat_ok(since)
        THEN Leave(Raise("ValueError", "Invalid isoformat string"), repo.calls)
        ELSE Enter(Append(repo.calls, Call("get_commits", since)), clamp(per_page))

fetchNewCommits_next(up, pulled, l) ==
    for_each(up, pulled, l, FALSE, [sha |-> pulled + 1], <<>>)

-----------------------------------------------------------------------------
(* fetchNewPRs *)

States == {"open", "all"}

fetchNewPRs_try(repository, state, per_page, up) ==
    LET repo == get_repo(repository, up)
    IN  IF ~repo.ok THEN repo.run
        ELSE Enter(Append(repo.calls, Call("get_pulls", state)), clamp(per_page))

fetchNewPRs_next(up, pulled, l) ==
    for_each(up, pulled, l, FALSE, [number |-> pulled + 1], <<>>)

-----------------------------------------------------------------------------
(* fetchNewIssues *)

(* issue.pull_request of the k-th listed issue *)
pull_request_never(items, k) == FALSE

pull_request(items, k) == k \in items.flagged

fetchNewIssues_try(repository, state, per_page, up) ==
    LET repo == get_repo(repository, up)
    IN  IF ~repo.ok THEN repo.run
        ELSE Enter(Append(repo.calls, Call("get_issues", state)), clamp(per_page))

fetchNewIssues_next(up, pulled, l) ==
    for_each(up, pulled, l, pull_request(up.items, pulled + 1),
             [number |-> pulled + 1], <<>>)

-----------------------------------------------------------------------------
(* Issues and comments looked up by number *)

ReactionKeys ==
    {"total_count", "+1", "-1", "laugh", "hooray", "confused", "heart", "rocket", "eyes"}

(* The `reactions` attribute of an upstream record that has one *)
UpstreamReactions ==
    {<<k, IF k \in {"total_count", "+1"} THEN 1 ELSE 0>> : k \in ReactionKeys}

(* { "total_count": x.reactions["total_count"], ... } if hasattr(x, 'reactions') else {} *)
reactions_of(has_reactions) ==
    IF has_reactions
    THEN {<<k, (CHOOSE p \in UpstreamReactions : p[1] = k)[2]>> : k \in ReactionKeys}
    ELSE {}

NoIssue ==
    [repo_found |-> TRUE, issue_found |-> FALSE, pull_request |-> FALSE,
     locked |-> FALSE, has_reactions |-> FALSE, write_ok |-> FALSE,
     items |-> EmptyCollection, fail_at |-> 0]

(* Responses to a handler that looks one issue up: whether get_repo and    *)
(* get_issue find their target, the issue's pull_request and locked        *)
(* attributes, whether it has a `reactions` attribute                      *)
IssueUpstreams(repo_str) ==
    {[NoIssue EXCEPT !.repo_found = FALSE]}
    \cup (IF Resolvable(repo_str)
          THEN {NoIssue}
               \cup {[NoIssue EXCEPT !.issue_found = TRUE, !.pull_request = p,
                                      !.locked = k, !.has_reactions = r] :
                        p \in BOOLEAN, k \in BOOLEAN, r \in BOOLEAN}
          ELSE {})

(* repo.get_issue(issue_number), then the pull_request test: lines 229-234 *)
is_pull_request_never(up) == FALSE

is_pull_request(up) == up.pull_request

get_issue(issue_number, up, c1) ==
    LET c2 == Append(c1, Call("get_issue", issue_number))
    IN  IF ~up.issue_found
        THEN Stop(Raise("UnknownObjectException", NotFoundMessage), c2)
        ELSE IF is_pull_request(up)
        THEN Stop(Raise("ValueError",
                        "Issue #" \o ToString(issue_number)
                           \o " is actually a pull request. Use PR-specific tools instead."),
                  c2)
        ELSE Proceed(c2, <<>>)

-----------------------------------------------------------------------------
(* fetchIssueDetails *)

fetchIssueDetails_try(repository, issue_number, up) ==
    LET repo == get_repo(repository, up)
        issue == get_issue(issue_number, up, repo.calls)
    IN  IF ~repo.ok THEN repo.run
        ELSE IF ~issue.ok THEN issue.run
        ELSE Leave(Return([number |-> issue_number,
                           reactions |-> reactions_of(up.has_reactions),
                           locked |-> up.locked]), issue.calls)

-----------------------------------------------------------------------------
(* fetchIssueComments *)

CommentListUpstreams(repo_str) ==
    {u \in IssueUpstreams(repo_str) :
        ~u.locked /\ ~u.has_reactions /\ (u.issue_found => u.pull_request)}
    \cup (IF Resolvable(repo_str)
          THEN {[NoIssue EXCEPT !.issue_found = TRUE, !.items = c, !.fail_at = f] :
                    c \in FlaggedCollections, f \in 0..MaxFailAt}
          ELSE {})

fetchIssueComments_try(repository, issue_number, per_page, up) ==
    LET repo == get_repo(repository, up)
        issue == get_issue(issue_number, up, repo.calls)
    IN  IF ~repo.ok THEN repo.run
        ELSE IF ~issue.ok THEN issue.run
        ELSE Enter(Append(issue.calls, Call("get_comments", None)), clamp(per_page))

fetchIssueComments_next(up, pulled, l) ==
    for_each(up, pulled, l, FALSE,
             [id |-> pulled + 1,
              reactions |-> reactions_of((pulled + 1) \notin up.items.flagged)],
             <<>>)

-----------------------------------------------------------------------------
(* addIssueComment and updateIssueComment *)

BodyChars == {" ", "x"}
Bodies == SeqsUpTo(BodyChars, MaxBodyLen)

Reverse(s) == [i \in 1..Len(s) |-> s[Len(s) + 1 - i]]

RECURSIVE lstrip(_)
lstrip(s) == IF s # <<>> /\ Head(s) = " " THEN lstrip(Tail(s)) ELSE s

(* str.strip() *)
strip_left_only(s) == lstrip(s)

strip(s) == Reverse(lstrip(Reverse(lstrip(s))))

(* if not os.environ.get("GITHUB_TOKEN") *)
token_missing_never(env) == FALSE

token_missing(env) == ~Truthy(environ_get(env, "GITHUB_TOKEN"))

(* if not comment_body or not comment_body.strip() *)
body_empty(comment_body) == comment_body = <<>> \/ strip(comment_body) = <<>>

AddUpstreams(repo_str) ==
    {u \in IssueUpstreams(repo_str) : ~u.has_reactions}
    \cup {[u EXCEPT !.write_ok = TRUE] :
            u \in {v \in IssueUpstreams(repo_str) :
                     v.issue_found /\ ~v.has_reactions}}

(* if issue.locked *)
is_locked_never(up) == FALSE

is_locked(up) == up.locked

addIssueComment_try(env, repository, issue_number, comment_body, up) ==
    IF token_missing(env)
    THEN Leave(Raise("Exception",
                     "GitHub token is required to add comments. Please set the GITHUB_TOKEN environment variable."),
               <<>>)
    ELSE
    LET repo == get_repo(repository, up)
        issue == get_issue(issue_number, up, repo.calls)
        c3 == Append(issue.calls, Call("create_comment", strip(comment_body)))
    IN  IF ~repo.ok THEN repo.run
        ELSE IF ~issue.ok THEN issue.run
        ELSE IF is_locked(up)
        THEN Leave(Raise("Exception",
                         "Issue #" \o ToString(issue_number)
                            \o " is locked and cannot accept new comments."),
                   issue.calls)
        ELSE IF body_empty(comment_body)
        THEN Leave(Raise("ValueError", "Comment body cannot be empty."), issue.calls)
        ELSE IF ~up.write_ok
        THEN Leave(Raise("GithubException", ForbiddenMessage), c3)
        ELSE Leave(Return([id |-> 1,
                           body |-> strip(comment_body),
                           issue_number |-> issue_number,
                           repository |-> full_name(repo.pair),
                           success |-> TRUE]), c3)

NoComment ==
    [repo_found |-> TRUE, comment_found |-> FALSE, write_ok |-> FALSE,
     items |-> EmptyCollection, fail_at |-> 0]

UpdateUpstreams(repo_str) ==
    {[NoComment EXCEPT !.repo_found = FALSE]}
    \cup (IF Resolvable(repo_str)
          THEN {NoComment}
               \cup {[NoComment EXCEPT !.comment_found = TRUE, !.write_ok = w] :
                        w \in BOOLEAN}
          ELSE {})

updateIssueComment_try(env, repository, comment_id, comment_body, up) ==
    IF token_missing(env)
    THEN Leave(Raise("Exception",
                     "GitHub token is required to update comments. Please set the GITHUB_TOKEN environment variable."),
               <<>>)
    ELSE
    LET repo == get_repo(repository, up)
        c2 == Append(repo.calls, Call("get_issue_comment", comment_id))
        c3 == Append(c2, Call("edit", strip(comment_body)))
    IN  IF ~repo.ok THEN repo.run
        ELSE IF ~up.comment_found
        THEN Leave(Raise("UnknownObjectException", NotFoundMessage), c2)
        ELSE IF body_empty(comment_body)
        THEN Leave(Raise("ValueError", "Comment body cannot be empty."), c2)
        ELSE IF ~up.write_ok
        THEN Leave(Raise("GithubException", ForbiddenMessage), c3)
        ELSE Leave(Return([id |-> comment_id,
                           body |-> strip(comment_body),
                           repository |-> full_name(repo.pair),
                           success |-> TRUE,
                           action |-> "updated"]), c3)

-----------------------------------------------------------------------------
(* fetchReleases *)

(* A text of the characters numbered lo..hi, each the last digit of its    *)
(* number, so that no two windows of it that start at different places     *)
(* are equal.                                                              *)
RECURSIVE Text(_, _)
Text(lo, hi) ==
    IF lo > hi THEN ""
    ELSE IF lo = hi THEN ToString(lo % 10)
    ELSE LET mid == (lo + hi) \div 2
         IN  Text(lo, mid) \o Text(mid + 1, hi)

(* len(release.body) of the releases that have a body *)
BodyLengths == {0, 1, BodyLimit - 1} \cup (BodyLimit..(BodyLimit + MaxExcess))

(* release.body: None, or the release notes *)
ReleaseBodies == {None} \cup {Some(Text(1, n)) : n \in BodyLengths}

(* Responses to fetchReleases: those of a list fetcher, and the body of    *)
(* the releases listed.                                                    *)
ReleaseUpstreams(repo_str) ==
    {u \in {[repo_found |-> l.repo_found, items |-> l.items,
             fail_at |-> l.fail_at, body |-> b] :
                l \in ListUpstreams(repo_str, PlainCollections),
                b \in ReleaseBodies} :
        u.items.n > 0 \/ u.body = None}

(* release.body[:500] + "..." if release.body and len(release.body) > 500  *)
(* else release.body                                                       *)
release_body_inclusive(body) ==
    IF Truthy(body) /\ Len(body[1]) >= BodyLimit
    THEN Some(SubSeq(body[1], 1, BodyLimit) \o "...")
    ELSE body

release_body(body) ==
    IF Truthy(body) /\ Len(body[1]) > BodyLimit
    THEN Some(SubSeq(body[1], 1, BodyLimit) \o "...")
    ELSE body

fetchReleases_try(repository, per_page, up) ==
    LET repo == get_repo(repository, up)
    IN  IF ~repo.ok THEN repo.run
        ELSE Enter(Append(repo.calls, Call("get_releases", None)), clamp(per_page))

fetchReleases_next(up, pulled, l) ==
    for_each(up, pulled, l, FALSE,
             [tag_name |-> pulled + 1, body |-> release_body(up.body)],
             <<>>)

-----------------------------------------------------------------------------
(* fetchWorkflowRuns *)

(* workflow.name of the workflow a run belongs to *)
WorkflowName == "CI"

(* workflow_name = "Unknown"                                               *)
(* try: workflow_name = repo.get_workflow(run.workflow_id).name            *)
(* except Exception: pass                                                  *)
(* The lookup for the k-th run raises when k is flagged.                   *)
workflow_name_unguarded(items, k) ==
    IF k \in items.flagged
    THEN Raise("GithubException", FaultMessage)
    ELSE Return(WorkflowName)

workflow_name(items, k) ==
    IF k \in items.flagged THEN Return("Unknown") ELSE Return(WorkflowName)

fetchWorkflowRuns_try(repository, per_page, up) ==
    LET repo == get_repo(repository, up)
    IN  IF ~repo.ok THEN repo.run
        ELSE Enter(Append(repo.calls, Call("get_workflow_runs", None)), clamp(per_page))

fetchWorkflowRuns_next(up, pulled, l) ==
    LET k == pulled + 1
        name == workflow_name(up.items, k)
        step == for_each(up, pulled, l, FALSE,
                         [id |-> k, workflow_name |-> name.value],
                         <<Call("get_workflow", k)>>)
    IN  IF step.pc = "loop" /\ name.raised
        THEN [step EXCEPT !.pc = "done", !.locals = l, !.res = name]
        ELSE step

-----------------------------------------------------------------------------
(* getRepoStats *)

StarValues == {0, 10, 11, 100, 101, 150, 1000}
ContributorValues == {0, 1, 2}

(* dict(repo.get_languages()) of a repository whose lookup succeeds *)
UpstreamLanguages == {<<"Python", 1000>>}

NoStats ==
    [repo_found |-> FALSE, description |-> FALSE, license |-> FALSE,
     has_wiki |-> FALSE, has_issues |-> FALSE, stargazers_count |-> 0,
     languages_ok |-> FALSE, contributors_ok |-> FALSE, totalCount |-> 0,
     items |-> EmptyCollection, fail_at |-> 0]

(* Responses to getRepoStats: the repository's attributes (description and *)
(* license as present or absent), whether get_languages and                *)
(* get_contributors succeed, and the contributors' totalCount (the number  *)
(* of contributors the repository has, also when the lookup fails).        *)
StatsUpstreams(repo_str) ==
    {NoStats}
    \cup (IF Resolvable(repo_str)
          THEN {[NoStats EXCEPT !.repo_found = TRUE, !.description = d,
                                 !.license = c, !.has_wiki = w, !.has_issues = i,
                                 !.stargazers_count = s, !.languages_ok = lo,
                                 !.contributors_ok = co, !.totalCount = n] :
                    d \in BOOLEAN, c \in BOOLEAN, w \in BOOLEAN, i \in BOOLEAN,
                    s \in StarValues, lo \in BOOLEAN, co \in BOOLEAN,
                    n \in ContributorValues}
          ELSE {})

(* try: stats["languages"] = dict(repo.get_languages())                    *)
(* except Exception: stats["languages"] = {}                               *)
languages(up) == IF up.languages_ok THEN UpstreamLanguages ELSE {}

(* try: stats["contributors_count"] = repo.get_contributors().totalCount   *)
(* except Exception: stats["contributors_count"] = 0                       *)
contributors_count(up) == IF up.contributors_ok THEN up.totalCount ELSE 0

(* Calculate health score (simple metric) *)
health_score_one_star_bonus(up, contributors) ==
    Min((IF up.description THEN 10 ELSE 0)
        + (IF up.license THEN 15 ELSE 0)
        + (IF up.has_wiki THEN 10 ELSE 0)
        + (IF up.has_issues THEN 10 ELSE 0)
        + (IF contributors > 1 THEN 15 ELSE 0)
        + (IF up.stargazers_count > 100 THEN 20
           ELSE IF up.stargazers_count > 10 THEN 20 ELSE 0),
        100)

health_score(up, contributors) ==
    Min((IF up.description THEN 10 ELSE 0)
        + (IF up.license THEN 15 ELSE 0)
        + (IF up.has_wiki THEN 10 ELSE 0)
        + (IF up.has_issues THEN 10 ELSE 0)
        + (IF contributors > 1 THEN 15 ELSE 0)
        + (IF up.stargazers_count > 10 THEN 20 ELSE 0)
        + (IF up.stargazers_count > 100 THEN 20 ELSE 0),
        100)

getRepoStats_try(repository, up) ==
    LET repo == get_repo(repository, up)
        count == contributors_count(up)
        c3 == repo.calls \o <<Call("get_languages", None), Call("get_contributors", None)>>
    IN  IF ~repo.ok THEN repo.run
        ELSE Leave(Return([full_name |-> full_name(repo.pair),
                           description |-> up.description,
                           stars |-> up.stargazers_count,
                           has_issues |-> up.has_issues,
                           has_wiki |-> up.has_wiki,
                           license |-> up.license,
                           languages |-> languages(up),
                           contributors_count |-> count,
                           health_score |-> health_score(up, count)]),
                   c3)

-----------------------------------------------------------------------------
(* Actions *)

Idle == [idle |-> TRUE]

(* The handler runs from its first line to the head of its loop, or to its *)
(* end.                                                                    *)
Begin(name, a, up, run) ==
    /\ pc' = run.pc
    /\ tool' = name
    /\ args' = a
    /\ upstream' = up
    /\ calls' = run.calls
    /\ consumed' = 0
    /\ locals' = run.locals
    /\ outcome' = run.res
    /\ UNCHANGED environ

(* One pass of the handler's loop. *)
Pass(step) ==
    /\ pc' = step.pc
    /\ calls' = calls \o step.calls
    /\ consumed' = step.consumed
    /\ locals' = step.locals
    /\ outcome' = step.res
    /\ UNCHANGED <<environ, tool, args, upstream>>

fetchNewCommits ==
    /\ pc = "idle"
    /\ \E repository \in Identifiers, per_page \in PerPages, since \in SinceValues :
            \E up \in ListUpstreams(repository, PlainCollections) :
                Begin("fetchNewCommits",
                      [repository |-> repository, per_page |-> per_page, since |-> since],
                      up,
                      reraise("Error fetching commits: ",
                              fetchNewCommits_try(repository, per_page, since, up)))

fetchNewCommits_loop ==
    /\ tool = "fetchNewCommits" /\ pc = "loop"
    /\ Pass(reraise("Error fetching commits: ",
                    fetchNewCommits_next(upstream, consumed, locals)))

fetchNewPRs ==
    /\ pc = "idle"
    /\ \E repository \in Identifiers, state \in States, per_page \in PerPages :
            \E up \in ListUpstreams(repository, PlainCollections) :
                Begin("fetchNewPRs",
                      [repository |-> repository, state |-> state, per_page |-> per_page],
                      up,
                      reraise("Error fetching pull requests: ",
                              fetchNewPRs_try(repository, state, per_page, up)))

fetchNewPRs_loop ==
    /\ tool = "fetchNewPRs" /\ pc = "loop"
    /\ Pass(reraise("Error fetching pull requests: ",
                    fetchNewPRs_next(upstream, consumed, locals)))

fetchNewIssues ==
    /\ pc = "idle"
    /\ \E repository \in Identifiers, state \in States, per_page \in PerPages :
            \E up \in ListUpstreams(repository, FlaggedCollections) :
                Begin("fetchNewIssues",
                      [repository |-> repository, state |-> state, per_page |-> per_page],
                      up,
                      reraise("Error fetching issues: ",
                              fetchNewIssues_try(repository, state, per_page, up)))

fetchNewIssues_loop ==
    /\ tool = "fetchNewIssues" /\ pc = "loop"
    /\ Pass(reraise("Error fetching issues: ",
                    fetchNewIssues_next(upstream, consumed, locals)))

fetchIssueDetails ==
    /\ pc = "idle"
    /\ \E repository \in Identifiers, issue_number \in IssueNumbers :
            \E up \in IssueUpstreams(repository) :
                Begin("fetchIssueDetails",
                      [repository |-> repository, issue_number |-> issue_number],
                      up,
                      reraise("Error fetching issue details: ",
                              fetchIssueDetails_try(repository, issue_number, up)))

fetchIssueComments ==
    /\ pc = "idle"
    /\ \E repository \in Identifiers, issue_number \in IssueNumbers, per_page \in PerPages :
            \E up \in CommentListUpstreams(repository) :
                Begin("fetchIssueComments",
                      [repository |-> repository, issue_number |-> issue_number,
                       per_page |-> per_page],
                      up,
                      reraise("Error fetching issue comments: ",
                              fetchIssueComments_try(repository, issue_number, per_page, up)))

fetchIssueComments_loop ==
    /\ tool = "fetchIssueComments" /\ pc = "loop"
    /\ Pass(reraise("Error fetching issue comments: ",
                    fetchIssueComments_next(upstream, consumed, locals)))

addIssueComment ==
    /\ pc = "idle"
    /\ \E repository \in Identifiers, issue_number \in IssueNumbers, comment_body \in Bodies :
            \E up \in AddUpstreams(repository) :
                Begin("addIssueComment",
                      [repository |-> repository, issue_number |-> issue_number,
                       comment_body |-> comment_body],
                      up,
                      reraise("Error adding comment to issue: ",
                              addIssueComment_try(environ, repository, issue_number,
                                                  comment_body, up)))

updateIssueComment ==
    /\ pc = "idle"
    /\ \E repository \in Identifiers, comment_id \in IssueNumbers, comment_body \in Bodies :
            \E up \in UpdateUpstreams(repository) :
                Begin("updateIssueComment",
                      [repository |-> repository, comment_id |-> comment_id,
                       comment_body |-> comment_body],
                      up,
                      reraise("Error updating comment: ",
                              updateIssueComment_try(environ, repository, comment_id,
                                                     comment_body, up)))

fetchReleases ==
    /\ pc = "idle"
    /\ \E repository \in Identifiers, per_page \in PerPages :
            \E up \in ReleaseUpstreams(repository) :
                Begin("fetchReleases",
                      [repository |-> repository, per_page |-> per_page],
                      up,
                      reraise("Error fetching releases: ",
                              fetchReleases_try(repository, per_page, up)))

fetchReleases_loop ==
    /\ tool = "fetchReleases" /\ pc = "loop"
    /\ Pass(reraise("Error fetching releases: ",
                    fetchReleases_next(upstream, consumed, locals)))

getRepoStats ==
    /\ pc = "idle"
    /\ \E repository \in Identifiers :
            \E up \in StatsUpstreams(repository) :
                Begin("getRepoStats",
                      [repository |-> repository],
                      up,
                      reraise("Error fetching repository stats: ",
                              getRepoStats_try(repository, up)))

fetchWorkflowRuns ==
    /\ pc = "idle"
    /\ \E repository \in Identifiers, per_page \in PerPages :
            \E up \in ListUpstreams(repository, FlaggedCollections) :
                Begin("fetchWorkflowRuns",
                      [repository |-> repository, per_page |-> per_page],
                      up,
                      reraise("Error fetching workflow runs: ",
                              fetchWorkflowRuns_try(repository, per_page, up)))

fetchWorkflowRuns_loop ==
    /\ tool = "fetchWorkflowRuns" /\ pc = "loop"
    /\ Pass(reraise("Error fetching workflow runs: ",
                    fetchWorkflowRuns_next(upstream, consumed, locals)))

(* The transport hands the value or the error to the caller; nothing of   *)
(* the invocation outlives it (the handlers keep no state between calls). *)
Respond ==
    /\ pc = "done"
    /\ pc' = "idle"
    /\ tool' = "idle"
    /\ args' = Idle
    /\ upstream' = Idle
    /\ calls' = <<>>
    /\ consumed' = 0
    /\ locals' = NoLocals
    /\ outcome' = Return(None)
    /\ UNCHANGED environ

Init ==
    /\ environ \in Environs
    /\ pc = "idle"
    /\ tool = "idle"
    /\ args = Idle
    /\ upstream = Idle
    /\ calls = <<>>
    /\ consumed = 0
    /\ locals = NoLocals
    /\ outcome = Return(None)

Next ==
    \/ fetchNewCommits
    \/ fetchNewCommits_loop
    \/ fetchNewPRs
    \/ fetchNewPRs_loop
    \/ fetchNewIssues
    \/ fetchNewIssues_loop
    \/ fetchIssueDetails
    \/ fetchIssueComments
    \/ fetchIssueComments_loop
    \/ addIssueComment
    \/ updateIssueComment
    \/ fetchReleases
    \/ fetchReleases_loop
    \/ getRepoStats
    \/ fetchWorkflowRuns
    \/ fetchWorkflowRuns_loop
    \/ Respond

Spec == Init /\ [][Next]_vars

-----------------------------------------------------------------------------
(* Properties *)

ListTools ==
    {"fetchNewCommits", "fetchNewPRs", "fetchNewIssues", "fetchIssueComments",
     "fetchReleases", "fetchWorkflowRuns"}

Returned == pc = "done" /\ ~outcome.raised
Failed == pc = "done" /\ outcome.raised

SlashCount(repo_str) == Len(SelectSeq(repo_str, LAMBDA c : c = "/"))

Invoked(op) == {i \in DOMAIN calls : calls[i].op = op}

(* The upstream records the tool accepts, in upstream order *)
Accepted ==
    {k \in 1..upstream.items.n :
        tool = "fetchNewIssues" => k \notin upstream.items.flagged}

(* The i-th smallest element of a set of numbers *)
Nth(S, i) == CHOOSE k \in S : Cardinality({j \in S : j <= k}) = i

(* The upstream index of a normalised record *)
IndexOf(rec) ==
    CASE tool = "fetchNewCommits" -> rec.sha
      [] tool \in {"fetchNewPRs", "fetchNewIssues"} -> rec.number
      [] tool \in {"fetchIssueComments", "fetchWorkflowRuns"} -> rec.id
      [] tool = "fetchReleases" -> rec.tag_name

(* The size the claims call effective: min(n, 100), and nothing below 0 *)
EffectiveSize == Max(0, Min(args.per_page, 100))

(* C1: fetchNewIssues returns exactly the first min(per_page, 100) issues of
   the upstream sequence that are not PR-backed, in upstream order (all of
   them if fewer exist); no returned record is PR-backed. *)
C1_IssuesFilterThenLimit ==
    (tool = "fetchNewIssues" /\ Returned) =>
        LET m == Min(EffectiveSize, Cardinality(Accepted))
        IN  /\ Len(outcome.value) = m
            /\ \A i \in 1..m :
                /\ outcome.value[i].number = Nth(Accepted, i)
                /\ outcome.value[i].number \notin upstream.items.flagged

(* per_page = 3 over an upstream whose first 5 records hold 2 PR-backed ones
   returned 3 issues *)
C1_Witness ==
    /\ tool = "fetchNewIssues" /\ Returned
    /\ args.per_page = 3
    /\ Cardinality(upstream.items.flagged \cap (1..5)) = 2
    /\ Len(outcome.value) = 3
    /\ outcome.value[3].number = 5

(* C2: every list fetcher returns at most min(n, 100) records, and exactly
   that many when the upstream has as many accepted records; with n = 0 or
   n negative, the other arguments valid and an upstream that answers, it
   returns the empty list without raising. *)
C2_EffectiveSize ==
    (tool \in ListTools /\ pc = "done") =>
        /\ ~outcome.raised =>
            /\ Len(outcome.value) <= EffectiveSize
            /\ Cardinality(Accepted) >= EffectiveSize =>
                    Len(outcome.value) = EffectiveSize
        /\ (/\ args.per_page <= 0
            /\ upstream.repo_found
            /\ tool = "fetchNewCommits" =>
                    args.since = None \/ fromisoformat_ok(args.since)
            /\ tool = "fetchIssueComments" =>
                    upstream.issue_found /\ ~upstream.pull_request
            /\ upstream.fail_at = 0) =>
                ~outcome.raised /\ outcome.value = <<>>

(* a request for 101 records over a longer upstream returned 100 *)
C2_Witness ==
    /\ tool \in ListTools /\ Returned
    /\ args.per_page = 101
    /\ Cardinality(Accepted) > 101
    /\ Len(outcome.value) = 100

(* C3: once effectiveSize accepted records are collected the fetcher pulls
   no further record: when it returns a full page, the number of upstream
   records consumed is the index of the last accepted record. *)
C3_StopsImmediately ==
    (/\ tool \in ListTools /\ Returned
     /\ EffectiveSize >= 1
     /\ Len(outcome.value) = EffectiveSize) =>
        consumed = IndexOf(outcome.value[Len(outcome.value)])

(* C4: an identifier whose number of '/' is not exactly one makes
   parse_repository raise its ValueError, and every tool called with it
   fails without invoking get_repo. *)
C4_MalformedIdentifier ==
    (pc # "idle" /\ SlashCount(args.repository) # 1) =>
        /\ parse_repository(args.repository).raised
        /\ parse_repository(args.repository).type = "ValueError"
        /\ Failed
        /\ Invoked("get_repo") = {}
        /\ tool \notin {"addIssueComment", "updateIssueComment"} =>
                outcome.context = Some([type |-> "ValueError",
                                        message |-> "Repository must be in format 'owner/repo'"])

(* a fetcher called with an identifier of two slashes failed *)
C4_Witness ==
    /\ tool = "fetchNewCommits" /\ Failed
    /\ SlashCount(args.repository) = 2
    /\ calls = <<>>

(* C5: parse_repository raises unless the identifier splits into exactly two
   non-empty segments, so no handler reaches get_repo with an empty owner
   or an empty name. *)
C5_NonEmptySegments ==
    (/\ pc # "idle"
     /\ \/ SlashCount(args.repository) # 1
        \/ Head(args.repository) = "/"
        \/ args.repository[Len(args.repository)] = "/") =>
        /\ parse_repository(args.repository).raised
        /\ Invoked("get_repo") = {}

NoCredential == environ_get(environ, "GITHUB_TOKEN") \in {None, Some("")}

CredentialRequired ==
    {"GitHub token is required to add comments. Please set the GITHUB_TOKEN environment variable.",
     "GitHub token is required to update comments. Please set the GITHUB_TOKEN environment variable."}

(* C6: with no credential configured, addIssueComment and updateIssueComment
   fail for every repository, id and body with the credential-required
   error, and invoke neither create_comment nor edit. *)
C6_CredentialRequired ==
    (tool \in {"addIssueComment", "updateIssueComment"} /\ pc # "idle" /\ NoCredential) =>
        /\ Failed
        /\ Invoked("create_comment") = {} /\ Invoked("edit") = {}
        /\ outcome.context # None
        /\ outcome.context[1].type = "Exception"
        /\ outcome.context[1].message \in CredentialRequired

(* addIssueComment without a credential, on an issue that exists, with a
   whitespace-only body, failed with the credential error *)
C6_Witness ==
    /\ tool = "addIssueComment" /\ Failed /\ NoCredential
    /\ upstream.issue_found
    /\ args.comment_body = <<" ">>
    /\ outcome.context[1].message \in CredentialRequired

(* C7: fetchIssueDetails, fetchIssueComments and addIssueComment fail when
   the target issue is PR-backed, and addIssueComment fails on a locked
   issue even with a credential and a valid body; create_comment is not
   invoked and nothing is listed. *)
C7_DomainConflict ==
    /\ (/\ tool \in {"fetchIssueDetails", "fetchIssueComments", "addIssueComment"}
        /\ pc # "idle"
        /\ upstream.issue_found /\ upstream.pull_request) =>
            /\ Failed
            /\ outcome.value = None
            /\ Invoked("create_comment") = {} /\ Invoked("get_comments") = {}
    /\ (/\ tool = "addIssueComment" /\ pc # "idle"
        /\ upstream.issue_found /\ upstream.locked) =>
            /\ Failed
            /\ Invoked("create_comment") = {}

(* addIssueComment with a credential and a valid body failed on a locked
   issue that is not PR-backed *)
C7_Witness ==
    /\ tool = "addIssueComment" /\ Failed /\ ~NoCredential
    /\ upstream.issue_found /\ upstream.locked /\ ~upstream.pull_request
    /\ args.comment_body = <<"x">>
    /\ Invoked("get_issue") # {}

CommentTools == {"addIssueComment", "updateIssueComment"}

Blank(s) == \A i \in 1..Len(s) : s[i] = " "
Spaces(n) == [i \in 1..n |-> " "]

(* t is s without its leading and trailing whitespace, and is not empty *)
TrimOf(t, s) ==
    /\ t # <<>>
    /\ t[1] # " " /\ t[Len(t)] # " "
    /\ \E i, j \in 0..Len(s) : s = Spaces(i) \o t \o Spaces(j)

Submissions == Invoked("create_comment") \cup Invoked("edit")

(* Every guard before the body validation passes *)
EarlierGuardsPass ==
    /\ ~NoCredential
    /\ upstream.repo_found
    /\ tool = "addIssueComment" =>
            upstream.issue_found /\ ~upstream.pull_request /\ ~upstream.locked
    /\ tool = "updateIssueComment" => upstream.comment_found

BodyValidationError ==
    Some([type |-> "ValueError", message |-> "Comment body cannot be empty."])

(* C8, as claimed: addIssueComment and updateIssueComment with a body that
   is empty or whitespace-only fail with the validation error and never
   invoke create_comment / edit; a body that is submitted is the trimmed
   body, submitted once. *)
C8_BlankBodyIsValidationError ==
    (tool \in CommentTools /\ pc # "idle") =>
        /\ Blank(args.comment_body) =>
            /\ Failed
            /\ outcome.context = BodyValidationError
            /\ Submissions = {}
        /\ \A i \in Submissions : TrimOf(calls[i].arg, args.comment_body)
        /\ Cardinality(Submissions) <= 1

(* C8, amended: addIssueComment and updateIssueComment with a body that is
   empty or whitespace-only fail and never invoke create_comment / edit;
   the failure is the validation error when every earlier guard passes
   (credential present, repository found, issue found and neither PR-backed
   nor locked, or comment found).  A body that is submitted is the trimmed
   body, submitted once; a body that is not blank is submitted when every
   earlier guard passes. *)
C8_BlankBodyRejected ==
    (tool \in CommentTools /\ pc # "idle") =>
        /\ Blank(args.comment_body) =>
            /\ Failed
            /\ EarlierGuardsPass => outcome.context = BodyValidationError
            /\ Submissions = {}
        /\ \A i \in Submissions : TrimOf(calls[i].arg, args.comment_body)
        /\ Cardinality(Submissions) <= 1
        /\ (EarlierGuardsPass /\ ~Blank(args.comment_body)) =>
                Cardinality(Submissions) = 1

(* a body with whitespace on both sides was submitted trimmed *)
C8_TrimmedSubmitted ==
    /\ tool = "addIssueComment" /\ Returned
    /\ args.comment_body = <<" ", "x", " ">>
    /\ Invoked("create_comment") # {}
    /\ outcome.value.body = <<"x">>

(* a whitespace-only body that passed every earlier guard was rejected *)
C8_Witness ==
    /\ tool = "updateIssueComment" /\ Failed
    /\ EarlierGuardsPass
    /\ args.comment_body = <<" ", " ">>
    /\ outcome.context = BodyValidationError

(* The fixed operation prefix of each tool *)
OperationPrefix ==
    CASE tool = "fetchNewCommits" -> "Error fetching commits: "
      [] tool = "fetchNewPRs" -> "Error fetching pull requests: "
      [] tool = "fetchNewIssues" -> "Error fetching issues: "
      [] tool = "fetchIssueDetails" -> "Error fetching issue details: "
      [] tool = "fetchIssueComments" -> "Error fetching issue comments: "
      [] tool = "addIssueComment" -> "Error adding comment to issue: "
      [] tool = "updateIssueComment" -> "Error updating comment: "
      [] tool = "fetchReleases" -> "Error fetching releases: "
      [] tool = "getRepoStats" -> "Error fetching repository stats: "
      [] tool = "fetchWorkflowRuns" -> "Error fetching workflow runs: "

(* The one error a failed tool is left with *)
WrappedOnce(o) ==
    /\ o.raised
    /\ o.type = "Exception"
    /\ o.context # None
    /\ o.message = OperationPrefix \o o.context[1].message
    /\ o.value = None

(* A failure on the primary path that the final state shows *)
PrimaryFailure ==
    \/ SlashCount(args.repository) # 1
    \/ ~upstream.repo_found
    \/ /\ tool \in {"fetchIssueDetails", "fetchIssueComments", "addIssueComment"}
       /\ ~upstream.issue_found \/ upstream.pull_request
    \/ tool = "updateIssueComment" /\ ~upstream.comment_found
    \/ tool = "fetchNewCommits" /\ args.since # None /\ ~fromisoformat_ok(args.since)

C9_FailedIsWrapped ==
    /\ pc = "loop" => ~outcome.raised
    /\ pc = "done" =>
        /\ outcome.raised => WrappedOnce(outcome)
        /\ PrimaryFailure => outcome.raised

(* The next pull from the upstream iterator raises *)
NextPullFaults == pc = "loop" /\ upstream.fail_at = consumed + 1

C9_FaultEndsCall ==
    NextPullFaults =>
        /\ pc' = "done"
        /\ WrappedOnce(outcome')
        /\ outcome'.context[1].message = FaultMessage

(* C9: every failure on a tool's primary path (malformed identifier,
   repository or issue not found, validation or domain error, an upstream
   fault while iterating, also after records were normalised) leaves the
   tool with exactly one error, of type Exception, whose message is the
   tool's operation prefix followed by the original message; the original
   error does not escape and no partial result list is returned. *)
C9_SingleWrappedError == [](C9_FailedIsWrapped) /\ [][C9_FaultEndsCall]_vars

(* an upstream fault while iterating, after a record was normalised, ended
   fetchNewIssues with the wrapped fault and no list *)
C9_Witness ==
    /\ tool = "fetchNewIssues" /\ Failed
    /\ locals.count >= 1 /\ Len(locals.results) >= 1
    /\ outcome.message = "Error fetching issues: 503 Service Unavailable"
    /\ outcome.value = None

(* C10: in getRepoStats a failing language lookup yields languages = {} and
   a failing contributor lookup yields contributors_count = 0, each
   independently of the other, with the primary fields and health_score
   returned; in fetchWorkflowRuns a failing workflow-name lookup yields
   workflow_name = "Unknown" for that run, and the run and all later runs
   are returned. *)
C10_AuxiliaryFailuresSwallowed ==
    /\ (tool = "getRepoStats" /\ pc = "done" /\ upstream.repo_found) =>
        /\ ~outcome.raised
        /\ outcome.value.languages =
                (IF upstream.languages_ok THEN UpstreamLanguages ELSE {})
        /\ outcome.value.contributors_count =
                (IF upstream.contributors_ok THEN upstream.totalCount ELSE 0)
        /\ outcome.value.full_name = args.repository
        /\ outcome.value.stars = upstream.stargazers_count
        /\ outcome.value.description = upstream.description
        /\ outcome.value.license = upstream.license
        /\ outcome.value.has_wiki = upstream.has_wiki
        /\ outcome.value.has_issues = upstream.has_issues
        /\ outcome.value.health_score \in 0..100
    /\ (tool = "fetchWorkflowRuns" /\ pc # "idle") =>
        /\ \A i \in 1..Len(locals.results) :
            /\ locals.results[i].id = i
            /\ locals.results[i].workflow_name =
                    (IF i \in upstream.items.flagged THEN "Unknown" ELSE WorkflowName)
        /\ Returned =>
            /\ outcome.value = locals.results
            /\ Len(outcome.value) = Min(EffectiveSize, upstream.items.n)
        /\ Failed =>
            \/ ~upstream.repo_found
            \/ upstream.fail_at = consumed + 1

(* getRepoStats returned with both auxiliary lookups failing *)
C10_Witness ==
    /\ tool = "getRepoStats" /\ Returned
    /\ ~upstream.languages_ok /\ ~upstream.contributors_ok
    /\ outcome.value.languages = {}
    /\ outcome.value.contributors_count = 0
    /\ outcome.value.stars = 150

(* 1 for a factor that is present, 0 otherwise *)
Points(b) == IF b THEN 1 ELSE 0

(* The contributor count getRepoStats works with: the fallback 0 when the
   lookup failed *)
CountUsed(u) == IF u.contributors_ok THEN u.totalCount ELSE 0

(* The score the claim gives a repository *)
ClaimedScore(u) ==
    Min(100,
        10 * Points(u.description) + 15 * Points(u.license)
        + 10 * Points(u.has_wiki) + 10 * Points(u.has_issues)
        + 15 * Points(CountUsed(u) > 1)
        + 20 * Points(u.stargazers_count > 10)
        + 20 * Points(u.stargazers_count > 100))

(* v has every factor of u, at least as many stars and contributors *)
Dominates(v, u) ==
    /\ u.description => v.description
    /\ u.license => v.license
    /\ u.has_wiki => v.has_wiki
    /\ u.has_issues => v.has_issues
    /\ v.stargazers_count >= u.stargazers_count
    /\ CountUsed(v) >= CountUsed(u)

(* C11: health_score is min(100, 10*[description] + 15*[license] +
   10*[wiki] + 10*[issues] + 15*[contributors_count > 1] + 20*[stars > 10]
   + 20*[stars > 100]), with the contributor count the fallback 0 when the
   lookup failed; it lies in 0..100, no repository with every factor at
   least as high scores lower, and all flags with 2 contributors and 150
   stars or more score 100. *)
C11_HealthScore ==
    (tool = "getRepoStats" /\ Returned) =>
        /\ outcome.value.contributors_count = CountUsed(upstream)
        /\ outcome.value.health_score = ClaimedScore(upstream)
        /\ outcome.value.health_score \in 0..100
        /\ \A v \in StatsUpstreams(args.repository) :
                (v.repo_found /\ Dominates(v, upstream)) =>
                    health_score(v, contributors_count(v)) >= outcome.value.health_score
        /\ (/\ upstream.description /\ upstream.license
            /\ upstream.has_wiki /\ upstream.has_issues
            /\ CountUsed(upstream) >= 2
            /\ upstream.stargazers_count >= 150) =>
                outcome.value.health_score = 100

(* every flag set, 2 contributors and more than 150 stars scored 100 *)
C11_Witness ==
    /\ tool = "getRepoStats" /\ Returned
    /\ upstream.description /\ upstream.license
    /\ upstream.has_wiki /\ upstream.has_issues
    /\ upstream.contributors_ok /\ upstream.totalCount = 2
    /\ upstream.stargazers_count > 150
    /\ outcome.value.health_score = 100

(* a repository with 2 contributors whose contributor lookup failed scored
   without the contributor points *)
C11_FallbackCount ==
    /\ tool = "getRepoStats" /\ Returned
    /\ ~upstream.contributors_ok /\ upstream.totalCount = 2
    /\ upstream.description /\ upstream.license
    /\ upstream.has_wiki /\ upstream.has_issues
    /\ upstream.stargazers_count = 150
    /\ outcome.value.health_score = 85

(* The keys of a reactions dict *)
KeysOf(reactions) == {p[1] : p \in reactions}

(* Every fixed key is present, once, and nothing else *)
AllReactionKeys(reactions) ==
    /\ KeysOf(reactions) = ReactionKeys
    /\ Cardinality(reactions) = Cardinality(ReactionKeys)

(* Every tally of the reactions dict is zero *)
AllZero(reactions) == \A p \in reactions : p[2] = 0

(* C12: every comment fetchIssueComments returns and every fetchIssueDetails
   response carries a reactions object with all the fixed keys (total count,
   +1, -1, laugh, hooray, confused, heart, rocket, eyes), every tally zero
   when the upstream record exposes no reaction data; the object is never
   empty or missing keys. *)
C12_ReactionsAlwaysComplete ==
    /\ (tool = "fetchIssueDetails" /\ Returned) =>
            /\ AllReactionKeys(outcome.value.reactions)
            /\ ~upstream.has_reactions => AllZero(outcome.value.reactions)
    /\ (tool = "fetchIssueComments" /\ Returned) =>
            \A i \in DOMAIN outcome.value :
                /\ AllReactionKeys(outcome.value[i].reactions)
                /\ outcome.value[i].id \in upstream.items.flagged =>
                        AllZero(outcome.value[i].reactions)

(* C13: a release body longer than 500 characters is returned as its first
   500 characters followed by "..." (503 characters); a body of 500
   characters or fewer, or an absent one, is returned unchanged, a body of
   exactly 500 without the marker; no returned body exceeds 503
   characters. *)
C13_BodyTruncation ==
    (tool = "fetchReleases" /\ Returned) =>
        \A i \in DOMAIN outcome.value :
            LET body == upstream.body
                returned == outcome.value[i].body
            IN  /\ (body # None /\ Len(body[1]) > 500) =>
                        /\ returned # None
                        /\ Len(returned[1]) = 503
                        /\ SubSeq(returned[1], 1, 500) = SubSeq(body[1], 1, 500)
                        /\ SubSeq(returned[1], 501, 503) = "..."
                /\ (body = None \/ Len(body[1]) <= 500) => returned = body
                /\ (body # None /\ Len(body[1]) = 500) =>
                        /\ Len(returned[1]) = 500
                        /\ SubSeq(returned[1], 498, 500) # "..."
                /\ returned # None => Len(returned[1]) <= 503

(* a release with a body of more than 500 characters was returned with a
   body of 503 *)
C13_Witness ==
    /\ tool = "fetchReleases" /\ Returned
    /\ Len(outcome.value) > 0
    /\ upstream.body # None /\ Len(upstream.body[1]) > 500
    /\ Len(outcome.value[1].body[1]) = 503

(* a release with a body of exactly 500 characters was returned *)
C13_AtLimit ==
    /\ tool = "fetchReleases" /\ Returned
    /\ Len(outcome.value) > 0
    /\ upstream.body # None /\ Len(upstream.body[1]) = 500
    /\ outcome.value[1].body = upstream.body

(* An exception of the given type and message, as the wrapper caught it *)
Caught(t, m) == Some([type |-> t, message |-> m])

(* The failure of the first guard of addIssueComment that does not pass, in
   the order credential, identifier, repository lookup, issue lookup, not
   PR-backed, not locked, body; None when every guard passes *)
FirstFailingGuard ==
    IF NoCredential
    THEN Caught("Exception",
                "GitHub token is required to add comments. Please set the GITHUB_TOKEN environment variable.")
    ELSE IF SlashCount(args.repository) # 1
    THEN Caught("ValueError", "Repository must be in format 'owner/repo'")
    ELSE IF ~upstream.repo_found
    THEN Caught("UnknownObjectException", NotFoundMessage)
    ELSE IF ~upstream.issue_found
    THEN Caught("UnknownObjectException", NotFoundMessage)
    ELSE IF upstream.pull_request
    THEN Caught("ValueError",
                "Issue #" \o ToString(args.issue_number)
                   \o " is actually a pull request. Use PR-specific tools instead.")
    ELSE IF upstream.locked
    THEN Caught("Exception",
                "Issue #" \o ToString(args.issue_number)
                   \o " is locked and cannot accept new comments.")
    ELSE IF Blank(args.comment_body)
    THEN Caught("ValueError", "Comment body cannot be empty.")
    ELSE None

(* The upstream operations invoked so far, in order *)
Operations == [i \in DOMAIN calls |-> calls[i].op]

(* C14: addIssueComment evaluates its guards in the order credential,
   identifier well-formed (exactly two parts), repository lookup, issue
   lookup, not PR-backed, not locked, body non-empty after trimming: when a
   guard fails the error is that of the first failing guard and no comment
   is created; the body validation error is raised only after get_repo and
   get_issue, in this order, both succeeded; a whitespace-only body on a
   locked or PR-backed issue is reported as the locked or PR-backed error. *)
C14_GuardOrder ==
    (tool = "addIssueComment" /\ pc # "idle") =>
        /\ FirstFailingGuard # None =>
                /\ Failed
                /\ outcome.context = FirstFailingGuard
                /\ Invoked("create_comment") = {}
        /\ (Failed /\ outcome.context = BodyValidationError) =>
                /\ Operations = <<"get_repo", "get_issue">>
                /\ upstream.repo_found /\ upstream.issue_found
                /\ ~upstream.pull_request /\ ~upstream.locked
        /\ NoCredential => calls = <<>>
        /\ Invoked("get_issue") # {} => (upstream.repo_found /\ Operations[1] = "get_repo")
        /\ Invoked("create_comment") # {} =>
                /\ FirstFailingGuard = None
                /\ SubSeq(Operations, 1, 2) = <<"get_repo", "get_issue">>

(* addIssueComment with a credential and a whitespace-only body on a locked
   issue failed with the locked error *)
C14_Witness ==
    /\ tool = "addIssueComment" /\ Failed /\ ~NoCredential
    /\ upstream.issue_found /\ upstream.locked /\ ~upstream.pull_request
    /\ args.comment_body = <<" ">>
    /\ outcome.context
         = Caught("Exception",
                  "Issue #" \o ToString(args.issue_number)
                     \o " is locked and cannot accept new comments.")

(* addIssueComment with a whitespace-only body on a PR-backed issue that is
   also locked failed with the PR-backed error *)
C14_PullRequestFirst ==
    /\ tool = "addIssueComment" /\ Failed /\ ~NoCredential
    /\ upstream.issue_found /\ upstream.locked /\ upstream.pull_request
    /\ Blank(args.comment_body)
    /\ outcome.context # None
    /\ outcome.context[1].type = "ValueError"
    /\ outcome.context # BodyValidationError

=============================================================================
